---- MODULE Spec2Model ----
(***************************************************************************)
(* Download orchestration of ytdle: the sequential DownloadManager         *)
(* (core/downloader.py) and the asyncio AsyncDownloadManager               *)
(* (core/async_manager.py), with the pause/skip/cancel control plane and   *)
(* the events they emit to the caller's callbacks.                         *)
(*                                                                         *)
(* A URL is its position 1..n in the input list.  Thread 0 is run() of the *)
(* sequential manager or the run_async() coroutine; threads 1..N are the   *)
(* _worker() coroutines.  The Fetcher (yt-dlp) is opaque: how many times   *)
(* it calls the progress hook in one attempt and how the attempt ends are  *)
(* inputs.  The caller's callbacks and the history store raise only in the *)
(* specifications SpecSeqCallbackFaults and SpecSeqHistoryFaults.          *)
(***************************************************************************)
EXTENDS Integers, Sequences, FiniteSets, TLC

\* ---- bounds of the model
MaxUrls == 2
MaxConcurrent == 2

Urls == 1..MaxUrls
Threads == 0..MaxConcurrent
Workers == 1..MaxConcurrent

VARIABLES
    mgr,              \* "seq": DownloadManager, "async": AsyncDownloadManager
    n,                \* len(self.urls)
    is_mp3,           \* options.is_mp3
    max_concurrent,   \* AsyncDownloadManager.max_concurrent
    cancelled,        \* _cancelled / _cancel_event
    skip_current,     \* _skip_current / _skip_current_event
    paused,           \* _paused
    pause_event,      \* _pause_event
    pc,               \* position of each thread
    cur,              \* the url a thread is processing (idx of run(), url of _worker)
    attempt,          \* attempt of _download_with_fallback, per thread
    exc,              \* how the executor job of a worker ended
    queue,            \* _queue
    unfinished_tasks, \* _queue._unfinished_tasks (put increments, task_done decrements)
    semaphore,        \* free permits of _semaphore
    success_count,    \* local of run / run_async
    fail_count,       \* local of run / run_async
    emitted,          \* the events emitted by the last step, in order
    nStarted,         \* per url: itemStarted events received so far
    nFinished,        \* per url: itemFinished events received so far
    nRecords,         \* per url: records appended to the history store so far
    tally,            \* itemFinished events received so far, by kind
    afCount,          \* allFinished events received so far
    afArgs,           \* arguments of the last allFinished
    skippedSinceCall, \* items finalized as Skipped since the last skip_current()
    store,            \* the history table, the legacy JSON file and its backup
    session,          \* the last operation on the history store and the table before it
    last_logged_pct,  \* _last_logged_pct
    progress_log,     \* the percentages of the item's last two "Progress: p%" log
                      \* lines, and _last_logged_pct before the last hook call
    call,             \* the last call noted: of a module-level function (argument,
                      \* result), or of skip_current() (the urls started by then)
    item              \* the manager's per-download fields, and per url what its
                      \* finalization reported, recorded and removed

vars == <<mgr, n, is_mp3, max_concurrent, cancelled, skip_current, paused,
          pause_event, pc, cur, attempt, exc, queue, unfinished_tasks,
          semaphore, success_count, fail_count, emitted, nStarted, nFinished,
          nRecords, tally, afCount, afArgs, skippedSinceCall, store, session,
          last_logged_pct, progress_log, call, item>>

config == <<mgr, n, is_mp3, max_concurrent>>
flags == <<cancelled, skip_current, paused, pause_event>>
qvars == <<queue, unfinished_tasks, semaphore>>
counts == <<success_count, fail_count>>
aux == <<store, session>>
pct_vars == <<last_logged_pct, progress_log>>
vars_managers == <<mgr, n, is_mp3, max_concurrent, cancelled, skip_current, paused,
                   pause_event, pc, cur, attempt, exc, queue, unfinished_tasks,
                   semaphore, success_count, fail_count, emitted, nStarted,
                   nFinished, nRecords, tally, afCount, afArgs, skippedSinceCall>>

\* ---- events
Ev(e, u) == [e |-> e, u |-> u, ok |-> FALSE, info |-> "", s |-> 0, f |-> 0]
EvFinished(u, ok, info) == [e |-> "itemFinished", u |-> u, ok |-> ok, info |-> info, s |-> 0, f |-> 0]
EvAllFinished(s, f) == [e |-> "allFinished", u |-> 0, ok |-> FALSE, info |-> "", s |-> s, f |-> f]

\* The history store is the one the application attaches to both managers
\* (ui/main_window.py); a record appended to it is kept in the trace of the
\* step with the events, as e = "history", ok = success, info = output_path.
\* add_completed: success = True, output_path = final_path, which is
\* _current_output_file or "Completed".
HistCompletedNoPath(u) == [e |-> "history", u |-> u, ok |-> TRUE, info |-> "", s |-> 0, f |-> 0]

HistCompleted(u) == [e |-> "history", u |-> u, ok |-> TRUE, info |-> "path", s |-> 0, f |-> 0]
\* add_failed: success = False, output_path = ""
HistFailed(u) == [e |-> "history", u |-> u, ok |-> FALSE, info |-> "", s |-> 0, f |-> 0]

\* A call of _cleanup_artifacts_for_current_item (the artifact reconciler)
\* while u is the current item, kept in the trace of the step like the events.
Cleanup(u) == [e |-> "cleanup", u |-> u, ok |-> FALSE, info |-> "", s |-> 0, f |-> 0]
\* ydl.download([url]) has returned: the Fetcher has written the output of u.
Downloaded(u) == [e |-> "downloaded", u |-> u, ok |-> TRUE, info |-> "", s |-> 0, f |-> 0]

CountEv(evs, e, u) == Cardinality({k \in DOMAIN evs : evs[k].e = e /\ evs[k].u = u})

\* The kinds of itemFinished(u, success, info) the caller tells apart.
Kinds == {"ok", "fail", "Skipped", "Cancelled"}
IsKind(ev, kind) ==
    /\ ev.e = "itemFinished"
    /\ CASE kind = "ok" -> ev.ok
         [] kind = "fail" -> ~ev.ok
         [] OTHER -> ev.info = kind
CountKind(evs, kind) == Cardinality({k \in DOMAIN evs : IsKind(evs[k], kind)})

\* The caller's callbacks receive evs, in order.
Tally(evs) ==
    /\ emitted' = evs
    /\ nStarted' = [u \in Urls |-> nStarted[u] + CountEv(evs, "itemStarted", u)]
    /\ nFinished' = [u \in Urls |-> nFinished[u] + CountEv(evs, "itemFinished", u)]
    /\ nRecords' = [u \in Urls |-> nRecords[u] + CountEv(evs, "history", u)]
    /\ tally' = [k \in Kinds |-> tally[k] + CountKind(evs, k)]
    /\ afCount' = afCount + CountEv(evs, "allFinished", 0)
    /\ afArgs' = IF CountEv(evs, "allFinished", 0) > 0
                 THEN LET k == CHOOSE x \in DOMAIN evs : evs[x].e = "allFinished"
                      IN <<evs[k].s, evs[k].f>>
                 ELSE afArgs
    /\ UNCHANGED <<aux, pct_vars, call, item>>

Emit(evs) ==
    /\ Tally(evs)
    /\ skippedSinceCall' = skippedSinceCall + CountKind(evs, "Skipped")

\* max_attempts = 3 if not self.options.is_mp3 else 1
max_attempts == IF is_mp3 THEN 1 ELSE 3

NoFile == [shape |-> "none", records |-> <<>>]
NoSession == [name |-> "none", url |-> "", file |-> NoFile, before |-> <<>>,
              raised |-> FALSE]

InitManagers ==
    /\ mgr \in {"seq", "async"}
    /\ n \in 0..MaxUrls
    /\ is_mp3 \in BOOLEAN
    /\ max_concurrent \in 1..MaxConcurrent
    /\ (mgr = "seq" => max_concurrent = 1)
    /\ cancelled = FALSE
    /\ skip_current = FALSE
    /\ paused = FALSE
    /\ pause_event = FALSE
    /\ pc = [t \in Threads |-> IF t = 0 THEN "begin" ELSE "none"]
    /\ cur = [t \in Threads |-> 0]
    /\ attempt = [t \in Threads |-> 0]
    /\ exc = [t \in Threads |-> "none"]
    /\ queue = <<>>
    /\ unfinished_tasks = 0
    /\ semaphore = max_concurrent
    /\ success_count = 0
    /\ fail_count = 0
    /\ emitted = <<>>
    /\ nStarted = [u \in Urls |-> 0]
    /\ nFinished = [u \in Urls |-> 0]
    /\ nRecords = [u \in Urls |-> 0]
    /\ tally = [k \in Kinds |-> 0]
    /\ afCount = 0
    /\ afArgs = <<0, 0>>
    /\ skippedSinceCall = 0

NoCall == [fn |-> "none"]
\* __init__, lines 190-197 of async_manager.py and 140-146 of downloader.py.  A
\* file and a title are named by the url they belong to, 0 is None.
NoItem == [current_output_file |-> 0, artifact_candidates |-> {},
           last_item_stem |-> 0, current_title |-> 0,
           final_path |-> [u \in Urls |-> 0 - 1],
           recorded_title |-> [u \in Urls |-> 0 - 1],
           removed |-> [u \in Urls |-> {}]]
NoProgressLog == [before |-> 0 - 10, lines |-> <<>>, progress |-> 0]

Init ==
    /\ InitManagers
    /\ store = [rows |-> <<>>, file |-> NoFile, backup |-> FALSE, clock |-> 0]
    /\ session = NoSession
    /\ last_logged_pct = 0 - 10
    /\ progress_log = NoProgressLog
    /\ call = NoCall
    /\ item = NoItem

\* ---- helpers
Goto(t, p, c, a) ==
    /\ pc' = [pc EXCEPT ![t] = p]
    /\ cur' = [cur EXCEPT ![t] = c]
    /\ attempt' = [attempt EXCEPT ![t] = a]

\* The progress records d the Fetcher passes to _progress_hook: the status tag,
\* whether total_bytes (or its estimate) is known, and whether pct has reached
\* _last_logged_pct + 10.
HookInputs ==
    {[status |-> "downloading", total |-> TRUE, crosses |-> TRUE],
     [status |-> "downloading", total |-> TRUE, crosses |-> FALSE],
     [status |-> "downloading", total |-> FALSE, crosses |-> FALSE],
     [status |-> "finished", total |-> FALSE, crosses |-> FALSE]}

\* What _progress_hook emits for d once it is past the cancel/skip/pause checks.
HookEvents(u, d) ==
    IF d.status = "downloading"
    THEN (IF d.total THEN <<Ev("progress", u)>> ELSE <<>>)
         \o <<Ev("status", u)>>
         \o (IF d.total /\ d.crosses THEN <<Ev("log", u)>> ELSE <<>>)
    ELSE <<Ev("status", u), Ev("log", u), Ev("progress", u)>>

\* build_yt_dlp_options: the "format" option of attempt a.  A quality other
\* than "best" caps the height (h stands for the digits of the quality).
Qualities == {"best", "720p"}

FormatStrategyBestLast(mp3, quality, a) ==
    IF mp3 THEN "bestaudio/best"
    ELSE IF a = 0 THEN "best"
    ELSE IF a = 1
         THEN (IF quality = "best" THEN "best[ext=mp4]/best"
               ELSE "best[height<=h][ext=mp4]/best[height<=h]/best")
    ELSE (IF quality = "best" THEN "bv*+ba/best"
          ELSE "bv*[height<=h]+ba/b[height<=h]/best[height<=h]/best")

FormatStrategy(mp3, quality, a) ==
    IF mp3 THEN "bestaudio/best"
    ELSE IF a = 0
         THEN (IF quality = "best" THEN "bv*+ba/best"
               ELSE "bv*[height<=h]+ba/b[height<=h]/best[height<=h]/best")
    ELSE IF a = 1
         THEN (IF quality = "best" THEN "best[ext=mp4]/best"
               ELSE "best[height<=h][ext=mp4]/best[height<=h]/best")
    ELSE "best"

\* _download_with_fallback, line 274: "Retrying with fallback format
\* (attempt a+1/max_attempts)"
RetryLog(u, a) == [Ev("log", u) EXCEPT !.info = "retry", !.s = a + 1, !.f = max_attempts]

\* yt_dlp.YoutubeDL(ydl_opts): the Fetcher is called for attempt a of u with
\* the format of build_yt_dlp_options (options.quality is "best").
Attempt(u, a) ==
    [e |-> "attempt", u |-> u, ok |-> FALSE,
     info |-> FormatStrategy(is_mp3, "best", a), s |-> a, f |-> 0]

\* _download_with_fallback, lines 271-285: the retry log, the Fetcher call
\* and the "Info: ..." log
AttemptEvents(u, a) ==
    (IF a > 0 THEN <<RetryLog(u, a)>> ELSE <<>>) \o <<Attempt(u, a), Ev("log", u)>>

\* How an attempt can end when no progress hook raised: ydl.download returns,
\* or raises an error that classify_error maps to FormatNotAvailableError
\* ("format") or to NetworkError or plain DownloadError ("other").
AttemptResults == {"ok", "format", "other"}

\* An except clause that continues on the last attempt as well.
RetriesOnLastAttempt(err, a) == a < max_attempts

\* The except clause of _download_with_fallback: classify_error always returns a
\* DownloadError (FormatNotAvailableError, CancelledError for "User cancelled",
\* plain DownloadError for "Skip current", ...), so every error is retried while
\* an attempt remains, and re-raised on the last attempt.
Retries(err, a) == a < max_attempts - 1

\* for attempt in range(max_attempts): no attempt is left, the loop ends and
\* _download_with_fallback returns (False, last_error) (line 309).
LoopFallsThrough(a) == a >= max_attempts

\* The log line of that except clause: it names the error it caught
\* ("Format not available, trying fallback..." / "All format attempts failed",
\* or "Download error: <class>: <message>").
ErrLog(u, err) == [Ev("log", u) EXCEPT !.info = err]

\* ======================= DownloadManager (sequential) =======================

\* cancel / skip_current / pause / resume of DownloadManager
SeqCancel ==
    /\ mgr = "seq" /\ pc[0] # "done"
    /\ ~cancelled
    /\ cancelled' = TRUE
    /\ Emit(<<>>)
    /\ UNCHANGED <<config, skip_current, paused, pause_event, pc, cur, attempt,
                   exc, qvars, counts>>

SeqSkipCurrent ==
    /\ mgr = "seq" /\ pc[0] # "done"
    /\ skip_current' = TRUE
    /\ Tally(<<>>)
    /\ skippedSinceCall' = 0
    /\ UNCHANGED <<config, cancelled, paused, pause_event, pc, cur, attempt,
                   exc, qvars, counts>>

SeqPause ==
    /\ mgr = "seq" /\ pc[0] # "done"
    /\ ~(paused /\ pause_event)
    /\ pause_event' = TRUE
    /\ paused' = TRUE
    /\ Emit(<<>>)
    /\ UNCHANGED <<config, cancelled, skip_current, pc, cur, attempt, exc,
                   qvars, counts>>

\* A resume that clears _paused and leaves _pause_event set.
SeqResumeLeavesEvent ==
    /\ mgr = "seq" /\ pc[0] # "done"
    /\ paused
    /\ paused' = FALSE
    /\ Emit(<<>>)
    /\ UNCHANGED <<config, cancelled, skip_current, pause_event, pc, cur, attempt,
                   exc, qvars, counts>>

SeqResume ==
    /\ mgr = "seq" /\ pc[0] # "done"
    /\ paused \/ pause_event
    /\ pause_event' = FALSE
    /\ paused' = FALSE
    /\ Emit(<<>>)
    /\ UNCHANGED <<config, cancelled, skip_current, pc, cur, attempt, exc,
                   qvars, counts>>

\* run, lines 408-421: the success branch
SeqFinishedEvents(u) == <<HistCompleted(u), EvFinished(u, TRUE, "path"), Ev("log", u)>>
\* run, lines 441-457: "User cancelled"
SeqCancelledEvents(u) ==
    <<Cleanup(u), Ev("log", u), HistFailed(u), EvFinished(u, FALSE, "Cancelled"), Ev("log", u)>>
\* run, lines 458-475: "Skip current"
SeqSkippedEvents(u) ==
    <<Cleanup(u), Ev("log", u), HistFailed(u), EvFinished(u, FALSE, "Skipped"), Ev("log", u)>>
\* A handler that reconciles the artifacts after the history write.
SeqFailedEventsHistoryFirst(u) ==
    <<HistFailed(u), Cleanup(u), Ev("log", u), Ev("error", u), EvFinished(u, FALSE, "error"), Ev("log", u)>>
\* run, lines 476-496: any other exception
SeqFailedEvents(u) ==
    <<Cleanup(u), Ev("log", u), HistFailed(u), Ev("error", u), EvFinished(u, FALSE, "error"), Ev("log", u)>>
\* run, lines 422-438: _download_with_fallback returned (False, error_msg)
SeqExhaustedEvents(u) ==
    <<Cleanup(u), Ev("log", u), HistFailed(u),
      EvFinished(u, FALSE, "Download failed after all attempts"), Ev("log", u)>>
\* run, lines 396-401
SeqStartEvents(u) ==
    <<Ev("itemStarted", u), Ev("status", u), Ev("progress", u), Ev("log", u)>>

\* The counters after an item is finalized as kind.
SeqSuccessCount(kind) == IF kind = "ok" THEN success_count + 1 ELSE success_count
SeqFailCount(kind) == IF kind \in {"format", "not_found", "other", "exhausted"} THEN fail_count + 1 ELSE fail_count

\* A handler that forgets that only a cancel ends the batch.
SeqBreaksOnSkipToo(kind) == kind \in {"cancel", "skip"}

\* Which finalizations end with break (line 457) instead of going on with the
\* next url (lines 475 and 385).
SeqBreaks(kind) == kind = "cancel"

\* The except clause of run (and the success branch): finalize the current item
\* as kind, having emitted pre so far in this step, then break or go on.
SeqFinalize(kind, pre) ==
    LET u == cur[0] IN
    /\ success_count' = SeqSuccessCount(kind)
    /\ fail_count' = SeqFailCount(kind)
    /\ skip_current' = IF kind = "skip" THEN FALSE ELSE skip_current
    /\ Emit(pre \o (CASE kind = "ok" -> SeqFinishedEvents(u)
                      [] kind = "cancel" -> SeqCancelledEvents(u)
                      [] kind = "skip" -> SeqSkippedEvents(u)
                      [] kind = "exhausted" -> SeqExhaustedEvents(u)
                      [] OTHER -> SeqFailedEvents(u)))
    /\ IF SeqBreaks(kind)
       THEN Goto(0, "after_loop", u, 0)
       ELSE Goto(0, "loop_check", u + 1, 0)
    /\ UNCHANGED <<config, cancelled, paused, pause_event, exc, qvars>>

\* An exception err leaves the download of the current attempt.
SeqRaise(err) ==
    IF Retries(err, attempt[0])
    THEN /\ Goto(0, "attempt", cur[0], attempt[0] + 1)
         /\ Emit(<<ErrLog(cur[0], err)>>)
         /\ UNCHANGED <<config, flags, exc, qvars, counts>>
    ELSE SeqFinalize(err, <<ErrLog(cur[0], err)>>)

\* run, lines 374-383
SeqBegin ==
    /\ mgr = "seq" /\ pc[0] = "begin"
    /\ Goto(0, "loop_check", 1, 0)
    /\ Emit(<<Ev("log", 0)>>)
    /\ UNCHANGED <<config, flags, exc, qvars, counts>>

\* The for loop of run has no further url.
SeqLoopExhausted == cur[0] > n

\* run, lines 385-388: next url of the for loop, and the cancel check
SeqLoopCheck ==
    /\ mgr = "seq" /\ pc[0] = "loop_check"
    /\ IF SeqLoopExhausted
       THEN Goto(0, "after_loop", cur[0], 0) /\ Emit(<<>>)
       ELSE IF cancelled
            THEN Goto(0, "after_loop", cur[0], 0) /\ Emit(<<Ev("log", 0)>>)
            ELSE Goto(0, "start", cur[0], 0) /\ Emit(<<>>)
    /\ UNCHANGED <<config, flags, exc, qvars, counts>>

\* run, lines 390-404: reset, itemStarted, makedirs
SeqStart ==
    /\ mgr = "seq" /\ pc[0] = "start"
    /\ \E makedirs_ok \in BOOLEAN :
         IF makedirs_ok
         THEN /\ Goto(0, "attempt", cur[0], 0)
              /\ Emit(SeqStartEvents(cur[0]))
              /\ UNCHANGED <<config, flags, exc, qvars, counts>>
         ELSE SeqFinalize("other", SeqStartEvents(cur[0]))

\* _download_with_fallback, lines 266-285: cancel check, retry log, info probe
SeqAttemptBegin ==
    /\ mgr = "seq" /\ pc[0] = "attempt"
    /\ IF LoopFallsThrough(attempt[0])
       THEN SeqFinalize("exhausted", <<>>)
       ELSE IF cancelled
       THEN SeqFinalize("cancel", <<>>)
       ELSE /\ Goto(0, "download", cur[0], attempt[0])
            /\ Emit(AttemptEvents(cur[0], attempt[0]))
            /\ UNCHANGED <<config, flags, exc, qvars, counts>>

\* _progress_hook, lines 188-258, called by the Fetcher during ydl.download
SeqProgressHook ==
    /\ mgr = "seq" /\ pc[0] = "download"
    /\ IF cancelled THEN SeqRaise("cancel")
       ELSE IF skip_current THEN SeqRaise("skip")
       ELSE IF pause_event
            THEN /\ Goto(0, "hook_sleep", cur[0], attempt[0])
                 /\ Emit(<<>>)
                 /\ UNCHANGED <<config, flags, exc, qvars, counts>>
            ELSE \E d \in HookInputs :
                 /\ Goto(0, "download", cur[0], attempt[0])
                 /\ Emit(HookEvents(cur[0], d))
                 /\ UNCHANGED <<config, flags, exc, qvars, counts>>

\* A wait that looks at the pause flag only.
SeqHookWakeOnResumeOnly ==
    /\ mgr = "seq" /\ pc[0] = "hook_sleep"
    /\ ~pause_event
    /\ \E d \in HookInputs :
         /\ Goto(0, "download", cur[0], attempt[0])
         /\ Emit(HookEvents(cur[0], d))
         /\ UNCHANGED <<config, flags, exc, qvars, counts>>

\* _progress_hook, lines 194-198: the wait while paused
SeqHookWake ==
    /\ mgr = "seq" /\ pc[0] = "hook_sleep"
    /\ IF cancelled THEN SeqRaise("cancel")
       ELSE /\ ~pause_event
            /\ \E d \in HookInputs :
                 /\ Goto(0, "download", cur[0], attempt[0])
                 /\ Emit(HookEvents(cur[0], d))
                 /\ UNCHANGED <<config, flags, exc, qvars, counts>>

\* _download_with_fallback, lines 287-307: ydl.download returns or raises
SeqAttemptEndWith(r) ==
    /\ mgr = "seq" /\ pc[0] = "download"
    /\ IF r = "ok" THEN SeqFinalize("ok", <<Downloaded(cur[0])>>) ELSE SeqRaise(r)

SeqAttemptEnd == \E r \in AttemptResults : SeqAttemptEndWith(r)

\* run, lines 498-499
SeqAllFinished ==
    /\ mgr = "seq" /\ pc[0] = "after_loop"
    /\ Goto(0, "done", cur[0], 0)
    /\ Emit(<<EvAllFinished(success_count, fail_count)>>)
    /\ UNCHANGED <<config, flags, exc, qvars, counts>>

\* The steps of the thread that executes run, the Fetcher's included.
SeqProgram ==
    \/ SeqBegin \/ SeqLoopCheck \/ SeqStart \/ SeqAttemptBegin
    \/ SeqProgressHook \/ SeqHookWake \/ SeqAttemptEnd \/ SeqAllFinished

SeqNext ==
    \/ SeqCancel \/ SeqSkipCurrent \/ SeqPause \/ SeqResume
    \/ SeqProgram

InitSeq == Init /\ mgr = "seq"
SpecSeq == InitSeq /\ [][SeqNext]_vars

\* ydl.download raises an error that classify_error maps to
\* VideoNotFoundError, one of the DownloadError subclasses other than
\* FormatNotAvailableError and NetworkError.
SeqAttemptNotFound == SeqAttemptEndWith("not_found")

SeqErrorKindsNext ==
    \/ SeqNext
    \/ SeqAttemptNotFound

SpecSeqErrorKinds == InitSeq /\ [][SeqErrorKindsNext]_vars

\* ==================== AsyncDownloadManager (asyncio) ========================
\* The coroutines run on one event loop: between two awaits a coroutine is not
\* interleaved with another coroutine, but cancel/skip_current/pause/resume come
\* from another thread and the Fetcher runs in executor threads, so both
\* interleave with it anywhere.  A worker is suspended in "get" (queue.get),
\* "pause_wait" (asyncio.sleep), "download" (run_in_executor, the Fetcher runs)
\* and "resume" (the executor job has ended, the coroutine has not resumed yet);
\* it is running in "start" and "attempt".
LoopIdle == \A w \in Workers : pc[w] \notin {"start", "attempt"}

\* The workers awaiting queue.get are interchangeable: the lowest one goes first.
FirstGetter(w) == \A v \in Workers : v < w => pc[v] # "get"

\* cancel / skip_current / pause / resume of AsyncDownloadManager
AsyncCancel ==
    /\ mgr = "async" /\ pc[0] # "done"
    /\ ~cancelled
    /\ cancelled' = TRUE
    /\ pause_event' = TRUE
    /\ Emit(<<>>)
    /\ UNCHANGED <<config, skip_current, paused, pc, cur, attempt, exc,
                   qvars, counts>>

AsyncSkipCurrent ==
    /\ mgr = "async" /\ pc[0] # "done"
    /\ skip_current' = TRUE
    /\ Tally(<<>>)
    /\ skippedSinceCall' = 0
    /\ UNCHANGED <<config, cancelled, paused, pause_event, pc, cur, attempt,
                   exc, qvars, counts>>

AsyncPause ==
    /\ mgr = "async" /\ pc[0] # "done"
    /\ ~(paused /\ pause_event)
    /\ paused' = TRUE
    /\ pause_event' = TRUE
    /\ Emit(<<>>)
    /\ UNCHANGED <<config, cancelled, skip_current, pc, cur, attempt, exc,
                   qvars, counts>>

\* A resume that also withdraws the cancel.
AsyncResumeClearsCancel ==
    /\ mgr = "async" /\ pc[0] # "done"
    /\ paused \/ pause_event
    /\ paused' = FALSE
    /\ pause_event' = FALSE
    /\ cancelled' = FALSE
    /\ Emit(<<>>)
    /\ UNCHANGED <<config, skip_current, pc, cur, attempt, exc, qvars, counts>>

AsyncResume ==
    /\ mgr = "async" /\ pc[0] # "done"
    /\ paused \/ pause_event
    /\ paused' = FALSE
    /\ pause_event' = FALSE
    /\ Emit(<<>>)
    /\ UNCHANGED <<config, cancelled, skip_current, pc, cur, attempt, exc,
                   qvars, counts>>

\* A start that reports progress before it announces the item.
AsyncStartEventsProgressFirst(u) == <<Ev("progress", u), Ev("itemStarted", u), Ev("log", u)>>

\* _process_single_download, lines 483-487
AsyncStartEvents(u) == <<Ev("itemStarted", u), Ev("progress", u), Ev("log", u)>>
\* _process_single_download, lines 494-506: the success branch
AsyncFinishedEvents(u) == <<HistCompleted(u), EvFinished(u, TRUE, "path"), Ev("log", u)>>
\* _process_single_download, lines 526-542: "User cancelled"
AsyncCancelledEvents(u) ==
    <<Cleanup(u), Ev("log", u), HistFailed(u), EvFinished(u, FALSE, "Cancelled"), Ev("log", u)>>
\* A skip branch that forgets on_item_finished.
AsyncSkippedEventsNoFinish(u) ==
    <<Cleanup(u), Ev("log", u), HistFailed(u), Ev("log", u)>>

\* _process_single_download, lines 544-560: "Skip current"
AsyncSkippedEvents(u) ==
    <<Cleanup(u), Ev("log", u), HistFailed(u), EvFinished(u, FALSE, "Skipped"), Ev("log", u)>>
\* _process_single_download, lines 507-522: _download_with_fallback returned
\* (False, error_msg)
AsyncExhaustedEvents(u) ==
    <<Cleanup(u), Ev("log", u), HistFailed(u),
      EvFinished(u, FALSE, "Download failed after all attempts"), Ev("log", u)>>
\* _process_single_download, lines 562-580: any other exception
AsyncFailedEvents(u) ==
    <<Cleanup(u), Ev("log", u), HistFailed(u), Ev("error", u), EvFinished(u, FALSE, "error"), Ev("log", u)>>

\* run_async never assigns its locals success_count and fail_count again.
AsyncSuccessCount(kind) == success_count
AsyncFailCount(kind) == fail_count

\* _process_single_download finalizes the item of worker w as kind and returns
\* or raises to _worker (lines 466-472), which releases the semaphore, calls
\* task_done and awaits the queue again.
AsyncFinalize(w, kind, pre) ==
    LET u == cur[w] IN
    /\ Emit(pre \o (CASE kind = "ok" -> AsyncFinishedEvents(u)
                      [] kind = "cancel" -> AsyncCancelledEvents(u)
                      [] kind = "skip" -> AsyncSkippedEvents(u)
                      [] kind = "exhausted" -> AsyncExhaustedEvents(u)
                      [] OTHER -> AsyncFailedEvents(u)))
    /\ success_count' = AsyncSuccessCount(kind)
    /\ fail_count' = AsyncFailCount(kind)
    /\ semaphore' = semaphore + 1
    /\ unfinished_tasks' = unfinished_tasks - 1
    /\ Goto(w, "get", 0, 0)
    /\ exc' = [exc EXCEPT ![w] = "none"]
    /\ UNCHANGED <<config, cancelled, paused, pause_event, queue>>

\* The _worker coroutines run_async creates (lines 601-604).
SpawnedWorkers == 1..max_concurrent

\* run_async, lines 584-608: logs, queue.put of every url, create_task, join
AsyncBegin ==
    /\ mgr = "async" /\ pc[0] = "begin"
    /\ queue' = [i \in 1..n |-> i]
    /\ unfinished_tasks' = n
    /\ pc' = [t \in Threads |-> IF t = 0 THEN "join"
                                 ELSE IF t \in SpawnedWorkers THEN "get" ELSE "none"]
    /\ Emit(<<Ev("log", 0), Ev("log", 0)>>)
    /\ UNCHANGED <<config, flags, cur, attempt, exc, semaphore, counts>>

\* _worker, lines 458-464, with url just dequeued or the sleep just over:
\* where the worker goes next.
AfterDequeue(w, u) ==
    IF paused /\ ~cancelled
    THEN /\ Goto(w, "pause_wait", u, 0)
         /\ UNCHANGED unfinished_tasks
    ELSE IF cancelled
         THEN /\ Goto(w, "exited", 0, 0)
              /\ unfinished_tasks' = unfinished_tasks - 1
         ELSE /\ Goto(w, "start", u, 0)
              /\ UNCHANGED unfinished_tasks

\* _worker, lines 449-464: queue.get with its timeout, then the pause loop
WorkerGet(w) ==
    /\ mgr = "async" /\ pc[w] = "get" /\ LoopIdle
    /\ FirstGetter(w)
    /\ IF queue = <<>>
       THEN /\ Goto(w, "exited", 0, 0)
            /\ UNCHANGED qvars
       ELSE /\ queue' = Tail(queue)
            /\ AfterDequeue(w, Head(queue))
            /\ UNCHANGED semaphore
    /\ Emit(<<>>)
    /\ UNCHANGED <<config, flags, exc, counts>>

\* _worker, lines 459-464: the sleep of the pause loop returns
WorkerPauseWake(w) ==
    /\ mgr = "async" /\ pc[w] = "pause_wait" /\ LoopIdle
    /\ ~(paused /\ ~cancelled)
    /\ AfterDequeue(w, cur[w])
    /\ Emit(<<>>)
    /\ UNCHANGED <<config, flags, exc, queue, semaphore, counts>>

\* _worker line 466 and _process_single_download, lines 476-490
WorkerStart(w) ==
    /\ mgr = "async" /\ pc[w] = "start"
    /\ semaphore > 0
    /\ \E makedirs_ok \in BOOLEAN :
         IF makedirs_ok
         THEN /\ semaphore' = semaphore - 1
              /\ skip_current' = FALSE
              /\ Goto(w, "attempt", cur[w], 0)
              /\ Emit(AsyncStartEvents(cur[w]))
              /\ UNCHANGED <<config, cancelled, paused, pause_event, exc, queue,
                             unfinished_tasks, counts>>
         ELSE /\ skip_current' = FALSE
              /\ Emit(AsyncStartEvents(cur[w]) \o AsyncFailedEvents(cur[w]))
              /\ unfinished_tasks' = unfinished_tasks - 1
              /\ Goto(w, "get", 0, 0)
              /\ UNCHANGED <<config, cancelled, paused, pause_event, exc, queue,
                             semaphore, counts>>

\* _download_with_fallback, lines 323-342, and the info probe of _run_yt_dlp
WorkerAttemptBegin(w) ==
    /\ mgr = "async" /\ pc[w] = "attempt"
    /\ IF LoopFallsThrough(attempt[w])
       THEN AsyncFinalize(w, "exhausted", <<>>) /\ UNCHANGED skip_current
       ELSE IF cancelled
       THEN AsyncFinalize(w, "cancel", <<>>) /\ UNCHANGED skip_current
       ELSE /\ Goto(w, "download", cur[w], attempt[w])
            /\ Emit(AttemptEvents(cur[w], attempt[w]))
            /\ UNCHANGED <<config, flags, exc, qvars, counts>>

\* _progress_hook, lines 245-314, called by the Fetcher in the executor thread
WorkerProgressHook(w) ==
    /\ mgr = "async" /\ pc[w] = "download"
    /\ IF cancelled \/ skip_current
       THEN /\ Goto(w, "resume", cur[w], attempt[w])
            /\ exc' = [exc EXCEPT ![w] = IF cancelled THEN "cancel" ELSE "skip"]
            /\ Emit(<<>>)
       ELSE /\ \E d \in HookInputs : Emit(HookEvents(cur[w], d))
            /\ Goto(w, "download", cur[w], attempt[w])
            /\ UNCHANGED exc
    /\ UNCHANGED <<config, flags, qvars, counts>>

\* _run_yt_dlp, lines 381-382: ydl.download returns or raises
WorkerAttemptEnd(w) ==
    /\ mgr = "async" /\ pc[w] = "download"
    /\ \E r \in AttemptResults :
         exc' = [exc EXCEPT ![w] = r]
    /\ Emit(<<>>)
    /\ Goto(w, "resume", cur[w], attempt[w])
    /\ UNCHANGED <<config, flags, qvars, counts>>

\* _download_with_fallback, lines 343-362: the await on the executor returns
WorkerResume(w) ==
    /\ mgr = "async" /\ pc[w] = "resume" /\ LoopIdle
    /\ IF exc[w] = "ok"
       THEN AsyncFinalize(w, "ok", <<Downloaded(cur[w])>>) /\ UNCHANGED skip_current
       ELSE IF Retries(exc[w], attempt[w])
            THEN /\ Goto(w, "attempt", cur[w], attempt[w] + 1)
                 /\ exc' = [exc EXCEPT ![w] = "none"]
                 /\ Emit(<<ErrLog(cur[w], exc[w])>>)
                 /\ UNCHANGED <<config, flags, qvars, counts>>
            ELSE AsyncFinalize(w, exc[w], <<ErrLog(cur[w], exc[w])>>) /\ UNCHANGED skip_current

\* A wait for the queue to be empty instead of for every task_done.
JoinReleasedWhenEmpty == queue = <<>>

\* queue.join() of run_async returns.
JoinReleased == unfinished_tasks = 0

\* run_async, lines 608-626: join returns, the workers are cancelled and
\* gathered, allFinished is emitted
AsyncAllFinished ==
    /\ mgr = "async" /\ pc[0] = "join" /\ LoopIdle
    /\ JoinReleased
    /\ pc' = [t \in Threads |-> IF t = 0 THEN "done"
                                 ELSE IF pc[t] \in {"get", "pause_wait"} THEN "exited"
                                 ELSE pc[t]]
    /\ Emit(<<EvAllFinished(success_count, fail_count)>>)
    /\ UNCHANGED <<config, flags, cur, attempt, exc, qvars, counts>>

\* The steps of run_async, of its workers and of the Fetcher.
WorkerStep(w) ==
    \/ WorkerGet(w) \/ WorkerPauseWake(w) \/ WorkerStart(w)
    \/ WorkerAttemptBegin(w) \/ WorkerProgressHook(w)
    \/ WorkerAttemptEnd(w) \/ WorkerResume(w)

AsyncProgram ==
    \/ AsyncBegin \/ AsyncAllFinished
    \/ \E w \in Workers : WorkerStep(w)

AsyncNext ==
    \/ AsyncCancel \/ AsyncSkipCurrent \/ AsyncPause \/ AsyncResume
    \/ AsyncProgram

InitAsync == Init /\ mgr = "async"
SpecAsync == InitAsync /\ [][AsyncNext]_vars

Next == SeqNext \/ AsyncNext
Spec == Init /\ [][Next]_vars

\* Scheduling: the thread of run keeps running, the event loop resumes every
\* coroutine that is ready (a finished sleep, get or executor job), and an
\* executor thread keeps running.  The callers of cancel, skip_current, pause
\* and resume owe nothing.
Fairness ==
    /\ WF_vars(SeqProgram)
    /\ WF_vars(AsyncBegin \/ AsyncAllFinished)
    /\ \A w \in Workers : WF_vars(WorkerStep(w))
\* The batches the fair specification runs.
MaxFairUrls == 1
MaxFairConcurrent == 1
InitFair == Init /\ n <= MaxFairUrls /\ max_concurrent <= MaxFairConcurrent
FairSpec == InitFair /\ [][Next]_vars /\ Fairness

\* ================== DownloadManager with a raising environment ==============
\* A caller's callback, or a write to the history store, may raise.  The call
\* that raises delivers nothing: the callback has not accepted the event, the
\* store has rolled the record back (database.py, get_connection).  hist tells
\* the two sorts of fault apart; a step has at most one.  When the exception
\* leaves run, the thread is "crashed".
Faultable(ev, hist) == IF hist THEN ev.e = "history" ELSE ev.e # "history"

\* run, lines 383 and 387: _emit_log outside any try
SeqLogRaises ==
    /\ mgr = "seq"
    /\ \/ pc[0] = "begin"
       \/ pc[0] = "loop_check" /\ ~SeqLoopExhausted /\ cancelled
    /\ Goto(0, "crashed", cur[0], 0)
    /\ Emit(<<>>)
    /\ UNCHANGED <<config, flags, exc, qvars, counts>>

\* run, lines 396-401: on_item_started and the three _emit_* before the try
SeqStartRaises ==
    /\ mgr = "seq" /\ pc[0] = "start"
    /\ \E k \in DOMAIN SeqStartEvents(cur[0]) :
         Emit(SubSeq(SeqStartEvents(cur[0]), 1, k - 1))
    /\ Goto(0, "crashed", cur[0], 0)
    /\ UNCHANGED <<config, flags, exc, qvars, counts>>

\* _download_with_fallback, lines 273-285: the retry log raises inside the try
\* (the except clause of line 290 takes it as a download error), or the info
\* log raises inside the probe's try (line 284 logs "Info probe failed").
SeqAttemptLogRaises ==
    /\ mgr = "seq" /\ pc[0] = "attempt" /\ ~cancelled
    /\ \/ attempt[0] > 0 /\ SeqRaise("other")
       \/ /\ Goto(0, "download", cur[0], attempt[0])
          /\ Emit(AttemptEvents(cur[0], attempt[0]))
          /\ UNCHANGED <<config, flags, exc, qvars, counts>>

\* _progress_hook, lines 200-258: a callback raises inside the try, and line
\* 258 logs "Progress hook error"
SeqHookRaises ==
    /\ mgr = "seq" /\ ~cancelled
    /\ \/ pc[0] = "download" /\ ~skip_current /\ ~pause_event
       \/ pc[0] = "hook_sleep" /\ ~pause_event
    /\ \E d \in HookInputs : \E k \in DOMAIN HookEvents(cur[0], d) :
         Emit(SubSeq(HookEvents(cur[0], d), 1, k - 1) \o <<Ev("log", cur[0])>>)
    /\ Goto(0, "download", cur[0], attempt[0])
    /\ UNCHANGED <<config, flags, exc, qvars, counts>>

\* run, lines 408-421 and 476-496: the download has returned, success_count is
\* incremented, and add_completed or a callback of the success branch raises
\* inside the try: the except clause takes the generic branch.
SeqSuccessFault(hist) ==
    LET u == cur[0]
        fin == SeqFinishedEvents(u)
    IN /\ mgr = "seq" /\ pc[0] = "download"
       /\ \E k \in DOMAIN fin :
            /\ Faultable(fin[k], hist)
            /\ Emit(<<Downloaded(u)>> \o SubSeq(fin, 1, k - 1) \o SeqFailedEvents(u))
       /\ success_count' = success_count + 1
       /\ fail_count' = fail_count + 1
       /\ Goto(0, "loop_check", u + 1, 0)
       /\ UNCHANGED <<config, flags, exc, qvars>>

\* run, lines 441-496: the events of the branch of the except clause for kind
SeqHandlerEvents(kind, u) ==
    CASE kind = "cancel" -> SeqCancelledEvents(u)
      [] kind = "skip" -> SeqSkippedEvents(u)
      [] OTHER -> SeqFailedEvents(u)

\* A call of that branch raises: the cleanup and its log are wrapped in
\* try/except-pass, add_failed and the callbacks after it are not, so the
\* exception leaves the except clause and run.
SeqHandlerRaises(kind, pre, hist) ==
    LET u == cur[0]
        evs == SeqHandlerEvents(kind, u)
    IN /\ \E k \in 3..Len(evs) :
            /\ Faultable(evs[k], hist)
            /\ Emit(pre \o SubSeq(evs, 1, k - 1))
       /\ success_count' = success_count
       /\ fail_count' = SeqFailCount(kind)
       /\ Goto(0, "crashed", u, 0)
       /\ UNCHANGED <<config, flags, exc, qvars>>

\* The ways run enters its except clause (makedirs, the cancel check of an
\* attempt, an error of the last attempt), with a fault in the branch taken.
SeqHandlerFault(hist) ==
    /\ mgr = "seq"
    /\ \/ pc[0] = "start" /\ SeqHandlerRaises("other", SeqStartEvents(cur[0]), hist)
       \/ pc[0] = "attempt" /\ cancelled /\ SeqHandlerRaises("cancel", <<>>, hist)
       \/ /\ pc[0] \in {"download", "hook_sleep"}
          /\ ~Retries("any", attempt[0])
          /\ \E err \in (IF pc[0] = "hook_sleep" THEN {}
                          ELSE {"format", "other"} \cup
                               (IF ~cancelled /\ skip_current THEN {"skip"} ELSE {}))
                         \cup (IF cancelled THEN {"cancel"} ELSE {}) :
               SeqHandlerRaises(err, <<ErrLog(cur[0], err)>>, hist)

SeqCallbackFaultNext ==
    \/ SeqNext
    \/ SeqLogRaises \/ SeqStartRaises \/ SeqAttemptLogRaises \/ SeqHookRaises
    \/ SeqSuccessFault(FALSE) \/ SeqHandlerFault(FALSE)
SpecSeqCallbackFaults == InitSeq /\ [][SeqCallbackFaultNext]_vars

SeqHistoryFaultNext == SeqNext \/ SeqSuccessFault(TRUE) \/ SeqHandlerFault(TRUE)
SpecSeqHistoryFaults == InitSeq /\ [][SeqHistoryFaultNext]_vars

\* ============================== properties ==================================

\* The items in flight: itemStarted emitted, itemFinished not yet.
InFlight == {u \in Urls : nStarted[u] > nFinished[u]}

\* Of the events received so far, how many of one sort precede the k-th event
\* of the last step.
StartedBefore(k, u) ==
    nStarted[u] - Cardinality({j \in DOMAIN emitted :
                      j >= k /\ emitted[j].e = "itemStarted" /\ emitted[j].u = u})
FinishedBefore(k, u) ==
    nFinished[u] - Cardinality({j \in DOMAIN emitted :
                      j >= k /\ emitted[j].e = "itemFinished" /\ emitted[j].u = u})
AllFinishedBefore(k) ==
    afCount - Cardinality({j \in DOMAIN emitted :
                      j >= k /\ emitted[j].e = "allFinished"})
CancelledBefore(k) ==
    tally["Cancelled"] - Cardinality({j \in DOMAIN emitted :
                      j >= k /\ IsKind(emitted[j], "Cancelled")})

C2_CancelTerminates ==
    (mgr = "async" /\ cancelled /\ afCount = 0) => ENABLED AsyncProgram

\* C3: a run that returns has emitted allFinished exactly once, and no
\* itemStarted, progress or itemFinished follows an allFinished.
C3_AllFinishedOnceAndLast ==
    /\ afCount <= 1
    /\ pc[0] = "done" => afCount = 1
    /\ \A k \in DOMAIN emitted :
         emitted[k].e \in {"itemStarted", "progress", "itemFinished"}
            => AllFinishedBefore(k) = 0

\* A run of two urls has returned, both items finished.
C3_Witness ==
    /\ pc[0] = "done" /\ afCount = 1
    /\ nFinished[1] = 1 /\ nFinished[2] = 1

\* C4: when run() of the sequential manager ends a batch in which cancel() was
\* never called, successCount + failCount of allFinished is the number of urls
\* (a Skipped item counts as failed).
C4_CountsSumToN ==
    (mgr = "seq" /\ afCount = 1 /\ ~cancelled) => afArgs[1] + afArgs[2] = n

\* C5: the (s, f) run_async passes to allFinished is (number of
\* itemFinished(_, true, _), number of itemFinished(_, false, _)).
C5_CountsMatchEvents ==
    (mgr = "async" /\ afCount = 1) => afArgs = <<tally["ok"], tally["fail"]>>

\* C6: once cancel() has been called, no itemStarted is emitted for a url
\* that was not in flight at the call.
C6_NoStartAfterCancel ==
    \A k \in DOMAIN emitted : emitted[k].e = "itemStarted" => ~cancelled

\* Where url u of the batch is: waiting, with a thread, or finished.
Waiting(u) ==
    IF mgr = "seq" THEN u > cur[0] \/ (u = cur[0] /\ pc[0] \in {"loop_check", "start"})
    ELSE \E i \in DOMAIN queue : queue[i] = u
Held(u) ==
    IF mgr = "seq" THEN u = cur[0] /\ pc[0] \in {"attempt", "download", "hook_sleep"}
    ELSE \E w \in Workers : cur[w] = u

C8_ProgressBetweenStartAndFinish ==
    \A k \in DOMAIN emitted :
       (emitted[k].e \in {"progress", "status"} /\ emitted[k].u # 0) =>
          /\ StartedBefore(k, emitted[k].u) = 1
          /\ FinishedBefore(k, emitted[k].u) = 0

\* The progress hook of a running download has just emitted a progress event.
C8_Witness ==
    \E t \in Threads :
       /\ pc[t] = "download"
       /\ \E k \in DOMAIN emitted :
            emitted[k].e = "progress" /\ emitted[k].u = cur[t]
       /\ emitted[1].e = "status"

\* C9: in run() of the sequential manager an item cancelled in flight is
\* finalized as Cancelled (at most one per run), no url is started after it,
\* and the item is counted in the failCount of allFinished: failCount is the
\* number of itemFinished(_, false, _) other than the Skipped ones, the
\* Cancelled one included.
C9_CancelledCountsAsFailed ==
    mgr = "seq" =>
      /\ tally["Cancelled"] <= 1
      /\ \A k \in DOMAIN emitted :
           emitted[k].e = "itemStarted" => CancelledBefore(k) = 0
      /\ (afCount = 1 /\ tally["Cancelled"] = 1) =>
            afArgs[2] = tally["fail"] - tally["Skipped"]

\* C10: one skip_current() call on AsyncDownloadManager finalizes at most one
\* item as Skipped.
C10_OneSkipPerCall ==
    mgr = "async" => skippedSinceCall <= 1
\* C11: when _download_with_fallback catches the "Skip current" raised by the
\* progress hook of item u, u is finalized as Skipped by that handling, and the
\* thread goes on to the next url: no further download attempt of u is begun.
C11_SkipFinalizesWithoutRetry ==
    \A k \in DOMAIN emitted :
       (emitted[k].e = "log" /\ emitted[k].info = "skip") =>
          /\ \E j \in DOMAIN emitted :
                j > k /\ IsKind(emitted[j], "Skipped") /\ emitted[j].u = emitted[k].u
          /\ \A t \in Threads : ~(pc[t] = "attempt" /\ cur[t] = emitted[k].u)
Blocked(t) == pc[t] \in {"hook_sleep", "pause_wait"}
\* The thread has left the wait and goes on with its item.
Continues(t) == pc[t] \in {"download", "start"}

\* C13: under weak fairness of the worker, a thread that is blocked by pause
\* when resume() has been called leaves the wait and continues its item, unless
\* pause() (or cancel()) is called again first.
C13_ResumeReleasesBlocked ==
    \A t \in Threads :
       (Blocked(t) /\ ~paused /\ ~cancelled) ~> (Continues(t) \/ paused \/ cancelled)

\* A thread is still in the pause wait after resume() was called.
C13_Witness == \E t \in Threads : Blocked(t) /\ ~paused /\ ~cancelled
C15_AsyncNoProgressWhilePaused ==
    (mgr = "async" /\ paused /\ ~cancelled) =>
       \A k \in DOMAIN emitted :
          emitted[k].e = "progress" =>
             \E j \in DOMAIN emitted : j < k /\ emitted[j].e = "itemStarted"
\* The last step of run began a download attempt: it emitted the log lines of
\* lines 273-285 (the hook always emits a status with its logs) and the Fetcher
\* is downloading.
SeqAttemptJustBegun ==
    /\ pc[0] = "download"
    /\ \E k \in DOMAIN emitted : emitted[k].e = "attempt"

\* C16: in DownloadManager, while pause is in effect (pause() called, neither
\* resume() nor cancel() since), no itemStarted is emitted and no download
\* attempt of the current item is begun.
C16_SeqNoStartWhilePaused ==
    (mgr = "seq" /\ paused /\ ~cancelled) =>
       /\ \A k \in DOMAIN emitted : emitted[k].e # "itemStarted"
       /\ ~SeqAttemptJustBegun
\* C17: the cancel flag is a latch: no step of either manager, and no call of
\* pause(), resume() or skip_current(), clears it once cancel() has set it.
C17_CancelIsLatch == [][cancelled => cancelled']_vars

\* After cancel() an item was finalized as Cancelled and skip_current() called.
C17_Witness == cancelled /\ skip_current /\ tally["Cancelled"] = 1
\* C18: a batch with an empty url list emits allFinished(0, 0) and no other
\* event of any kind.
C18_EmptyBatchOnlyAllFinished ==
    n = 0 =>
       /\ \A k \in DOMAIN emitted : emitted[k].e = "allFinished"
       /\ pc[0] = "done" => (afCount = 1 /\ afArgs = <<0, 0>>)
\* C19: an exception raised by a caller's callback (on_item_started,
\* on_progress, on_status, on_log, on_error, on_item_finished) is caught: it
\* never leaves run.
C19_CallbackFaultContained == pc[0] # "crashed"

\* C20: a failing history write never aborts the batch: until allFinished is
\* emitted, run has a step to take (unless it waits for resume()).
C20_HistoryFaultContained ==
    (mgr = "seq" /\ afCount = 0 /\ ~paused) => ENABLED SeqProgram
\* C21: the artifact reconciler runs only on the failure path: no step calls
\* _cleanup_artifacts_for_current_item for an item whose download has
\* returned, also when a callback or a history write raises after it.
C21_NoCleanupAfterSuccess ==
    \A k \in DOMAIN emitted :
       emitted[k].e = "cleanup" =>
          ~\E j \in DOMAIN emitted :
              j < k /\ emitted[j].e = "downloaded" /\ emitted[j].u = emitted[k].u
\* ---------------------------------------------------------------------------
\* The history store: DownloadHistory (core/history.py) over DatabaseManager
\* (core/database.py).  A row of the history table is projected onto url,
\* success, output_path and timestamp; rows are kept in id order.  The legacy
\* JSON file is an input: its shape and its elements are chosen initially.
\* Timestamps are ranks: element i of the legacy file carries timestamp i, and
\* a row inserted by add_record gets CURRENT_TIMESTAMP, later than all of them.
\* ---------------------------------------------------------------------------
\* elements of the legacy JSON file
MaxLegacy == 2
\* rows of the history table
MaxRows == 3
\* calls of add_record
MaxAdds == 2

\* Two URLs, the first a substring of the second.
StoreUrls == {"a", "ab"}
Paths == {"", "p"}

\* url LIKE '%q%' of DatabaseManager.search
Like(q, url) == q = url \/ (q = "a" /\ url = "ab")

\* An element of the legacy file: "url" is a string or null, "success" is
\* true, false or null.
LegacyRecords ==
    [url : {"a"}, success : {"true", "false", "null"}]
        \cup {[url |-> "null", success |-> "true"]}

LegacyFiles ==
    {NoFile} \cup
    [shape : {"array", "object"},
     records : UNION {[1..k -> LegacyRecords] : k \in 1..MaxLegacy}]

\* sqlite3 binds True as 1, False as 0 and None as NULL.
BindSuccess(v) ==
    CASE v = "true" -> "1"
      [] v = "false" -> "0"
      [] OTHER -> "NULL"

\* INSERT of a legacy element fails on url TEXT NOT NULL.
InsertRaises(rec) == rec.url = "null"

\* The rows inserted by the loop of migrate_from_json: one per element whose
\* INSERT does not raise, with the element's own timestamp.
Migrated(records) ==
    LET idx == [i \in 1..Len(records) |-> i]
        good == SelectSeq(idx, LAMBDA i : ~InsertRaises(records[i]))
    IN [k \in 1..Len(good) |->
          [url |-> records[good[k]].url,
           success |-> BindSuccess(records[good[k]].success),
           output_path |-> "",
           timestamp |-> good[k]]]

Session(name, url) ==
    [name |-> name, url |-> url, file |-> store.file, before |-> store.rows,
     raised |-> FALSE]

\* DownloadHistory.__init__: DatabaseManager() and migrate_from_json.
Open ==
    LET f == store.file
        ins == Migrated(f.records)
    IN /\ Len(store.rows) + Len(ins) <= MaxRows
       /\ UNCHANGED <<vars_managers, pct_vars, call, item>>
       /\ IF f.shape = "none"
          THEN /\ store' = store
               /\ session' = Session("open", "")
          ELSE IF f.shape = "array"
          THEN \* data.get raises AttributeError before the session opens
               /\ store' = store
               /\ session' = Session("open", "")
          ELSE /\ session' = [Session("open", "") EXCEPT
                                 !.raised = \E i \in DOMAIN f.records :
                                               InsertRaises(f.records[i])]
               /\ \E rename_ok \in BOOLEAN :
                     store' = [store EXCEPT
                                 !.rows = @ \o ins,
                                 !.file = IF rename_ok THEN NoFile ELSE @,
                                 !.backup = @ \/ rename_ok]

\* DatabaseManager.add_record
add_record(u, success, output_path) ==
    /\ Len(store.rows) < MaxRows
    /\ store.clock < MaxAdds
    /\ store' = [store EXCEPT
                   !.rows = Append(@, [url |-> u, success |-> success,
                                       output_path |-> output_path,
                                       timestamp |-> MaxLegacy + 1 + store.clock]),
                   !.clock = @ + 1]
    /\ UNCHANGED <<vars_managers, pct_vars, call, item>>

AddCompleted ==
    \E u \in StoreUrls :
       /\ add_record(u, "1", "p")
       /\ session' = Session("add_completed", u)

AddFailed ==
    \E u \in StoreUrls :
       /\ add_record(u, "0", "")
       /\ session' = Session("add_failed", u)

\* The INSERT of add_record raises (the database is locked, the disk is
\* full): get_connection rolls back and re-raises.
AddRaises ==
    \E u \in StoreUrls :
       /\ store' = store
       /\ session' = [Session("add_failed", u) EXCEPT !.raised = TRUE]
       /\ UNCHANGED <<vars_managers, pct_vars, call, item>>

\* DatabaseManager.search(url, limit=1): the rows that ORDER BY timestamp
\* DESC LIMIT 1 may return.
MostRecent(rows, q) ==
    {k \in DOMAIN rows :
        /\ Like(q, rows[k].url)
        /\ \A j \in DOMAIN rows : Like(q, rows[j].url) => rows[j].timestamp <= rows[k].timestamp}

\* DownloadHistory.update_record, DatabaseManager.update_record
UpdateRecord ==
    \E u \in StoreUrls, success \in {"1", "0"}, output_path \in Paths :
       /\ session' = Session("update_record", u)
       /\ UNCHANGED <<vars_managers, pct_vars, call, item>>
       /\ IF MostRecent(store.rows, u) = {}
          THEN store' = store
          ELSE \E r \in MostRecent(store.rows, u) :
                  store' = [store EXCEPT !.rows =
                     [k \in DOMAIN store.rows |->
                        IF store.rows[k].url = u
                        THEN [store.rows[k] EXCEPT
                                !.success = success,
                                !.output_path = IF output_path # "" THEN output_path
                                                ELSE store.rows[r].output_path]
                        ELSE store.rows[k]]]

\* DELETE FROM history [WHERE success = ?]: gone is the set of the success
\* values whose rows the statement deletes.
Delete(name, gone) ==
    /\ store' = [store EXCEPT !.rows = SelectSeq(@, LAMBDA row : row.success \notin gone)]
    /\ session' = Session(name, "")
    /\ UNCHANGED <<vars_managers, pct_vars, call, item>>

ClearHistory == Delete("clear_history", {"1", "0", "NULL"})
ClearCompleted == Delete("clear_completed", {"1"})
ClearFailed == Delete("clear_failed", {"0"})

get_completed == SelectSeq(store.rows, LAMBDA row : row.success = "1")
get_failed == SelectSeq(store.rows, LAMBDA row : row.success = "0")

\* success_rate is the fraction completed / total, kept as <<num, den>>.
get_stats ==
    [total |-> Len(store.rows),
     completed |-> Len(SelectSeq(store.rows, LAMBDA row : row.success = "1")),
     failed |-> Len(SelectSeq(store.rows, LAMBDA row : row.success = "0")),
     success_rate |-> IF Len(store.rows) > 0
                      THEN <<Len(SelectSeq(store.rows, LAMBDA row : row.success = "1")),
                             Len(store.rows)>>
                      ELSE <<0, 1>>]

StoreNext ==
    \/ Open
    \/ AddCompleted
    \/ AddFailed
    \/ AddRaises
    \/ UpdateRecord
    \/ ClearHistory
    \/ ClearCompleted
    \/ ClearFailed

InitStore ==
    /\ InitManagers /\ mgr = "seq" /\ n = 0 /\ ~is_mp3
    /\ store \in [rows : {<<>>}, file : LegacyFiles, backup : {FALSE}, clock : {0}]
    /\ session = NoSession
    /\ last_logged_pct = 0 - 10
    /\ progress_log = NoProgressLog
    /\ call = NoCall
    /\ item = NoItem

SpecStore == InitStore /\ [][StoreNext]_vars
\* C22: an open that finds a legacy file, a raw array or an object with
\* "records", inserts every element of the file with its own timestamp and
\* renames the file to the backup name.
C22_MigratesBothShapes ==
    (/\ session.name = "open"
     /\ session.file.shape \in {"array", "object"}
     /\ \A i \in DOMAIN session.file.records : ~InsertRaises(session.file.records[i])) =>
       /\ Len(store.rows) = Len(session.before) + Len(session.file.records)
       /\ \A i \in DOMAIN session.file.records :
             /\ store.rows[Len(session.before) + i].url = session.file.records[i].url
             /\ store.rows[Len(session.before) + i].timestamp = i
       /\ store.file = NoFile
       /\ store.backup

\* C23: across any sequence of opens each element of the legacy file is
\* ingested at most once: no two rows of the table carry the timestamp of the
\* same legacy element.
C23_IngestedAtMostOnce ==
    \A i, j \in DOMAIN store.rows :
       (i # j /\ store.rows[i].timestamp <= MaxLegacy) =>
          store.rows[i].timestamp # store.rows[j].timestamp

\* C24: update-by-url inserts nothing and changes at most the most recent row
\* whose URL is the given URL; every other row is as before.
C24_UpdateChangesMostRecentOnly ==
    session.name = "update_record" =>
       /\ Len(store.rows) = Len(session.before)
       /\ \E r \in DOMAIN store.rows \cup {0} :
             /\ r # 0 =>
                  /\ session.before[r].url = session.url
                  /\ \A j \in DOMAIN session.before :
                        session.before[j].url = session.url =>
                           session.before[j].timestamp <= session.before[r].timestamp
             /\ \A k \in DOMAIN store.rows : k # r => store.rows[k] = session.before[k]

\* C25: a write session in which an error was raised is rolled back: the
\* table is exactly the table before the session.
C25_RaisedSessionRolledBack ==
    session.raised => store.rows = session.before

\* C26: get_stats returns total = completed + failed, completed and failed
\* the numbers of rows of get_completed and get_failed, and success_rate =
\* completed / total (0 when total is 0).
C26_StatsConsistent ==
    /\ get_stats.total = get_stats.completed + get_stats.failed
    /\ get_stats.completed = Len(get_completed)
    /\ get_stats.failed = Len(get_failed)
    /\ get_stats.success_rate =
          IF get_stats.total = 0 THEN <<0, 1>>
          ELSE <<get_stats.completed, get_stats.total>>
C28_OtherKindsAreFatal ==
    \A k \in DOMAIN emitted :
       (emitted[k].e = "log" /\ emitted[k].info = "not_found") =>
          /\ \E j \in DOMAIN emitted :
                j > k /\ emitted[j] = EvFinished(emitted[k].u, FALSE, "error")
          /\ \A t \in Threads : ~(pc[t] = "attempt" /\ cur[t] = emitted[k].u)
\* C29: every non-success finalization of an item (Failed, Skipped or
\* Cancelled) invokes the reconciler exactly once for the item, before the
\* add_failed write, which is before itemFinished(u, false, reason); the
\* reconciler runs nowhere else; and after a Cancelled finalization the batch
\* stops: no further item is started.
C29_ReconcileThenRecordThenReport ==
    /\ \A k \in DOMAIN emitted :
          (emitted[k].e = "itemFinished" /\ ~emitted[k].ok) =>
             /\ CountEv(emitted, "cleanup", emitted[k].u) = 1
             /\ \E c, h \in DOMAIN emitted :
                   /\ c < h /\ h < k
                   /\ emitted[c] = Cleanup(emitted[k].u)
                   /\ emitted[h] = HistFailed(emitted[k].u)
    /\ \A c \in DOMAIN emitted :
          emitted[c].e = "cleanup" =>
             \E k \in DOMAIN emitted :
                k > c /\ emitted[k].e = "itemFinished" /\ ~emitted[k].ok
                      /\ emitted[k].u = emitted[c].u
    /\ \A k \in DOMAIN emitted :
          emitted[k].e \in {"itemStarted", "attempt"} => CancelledBefore(k) = 0

\* An item of AsyncDownloadManager has been finalized as Cancelled while
\* another url was still in the queue.
C29_Witness ==
    /\ mgr = "async"
    /\ queue # <<>>
    /\ \E k \in DOMAIN emitted : IsKind(emitted[k], "Cancelled")
\* ---------------------------------------------------------------------------
\* The progress log of one manager: _last_logged_pct over the progress
\* records of the Fetcher (_progress_hook, lines 202-219) and the reset at the
\* start of each item (run, line 390).
\* ---------------------------------------------------------------------------
\* the largest downloaded_bytes of a progress record
MaxDownloaded == 25

\* total_bytes or total_bytes_estimate of a progress record; 0 when the
\* record has neither
Totals == {0, 20, 30}

\* run, line 390 (_process_single_download, line 476)
PctItemStart ==
    /\ last_logged_pct' = 0 - 10
    /\ progress_log' = NoProgressLog
    /\ UNCHANGED <<vars_managers, aux, call, item>>

\* int(downloaded * 100 / total)
Pct(downloaded, total) == (downloaded * 100) \div total

\* _emit_progress(pct), line 208: the value on_progress receives
PctProgress(pct) == pct

\* _progress_hook, lines 203-219, for a "downloading" record
PctDownloading ==
    \E downloaded \in 0..MaxDownloaded, total \in Totals :
       LET pct == IF total # 0 THEN Pct(downloaded, total) ELSE 0
           progress == IF total # 0 THEN PctProgress(pct) ELSE progress_log.progress
       IN
       /\ UNCHANGED <<vars_managers, aux, call, item>>
       /\ IF total # 0 /\ pct >= last_logged_pct + 10
          THEN /\ last_logged_pct' = pct - (pct % 10)
               /\ progress_log' =
                     [before |-> last_logged_pct,
                      lines |-> IF progress_log.lines = <<>> THEN <<pct>>
                                ELSE <<progress_log.lines[Len(progress_log.lines)], pct>>,
                      progress |-> progress]
          ELSE /\ last_logged_pct' = last_logged_pct
               /\ progress_log' = [progress_log EXCEPT !.before = last_logged_pct,
                                                        !.progress = progress]

\* _progress_hook, lines 243-256, for a "finished" record: _emit_progress(100)
PctFinished ==
    /\ progress_log' = [progress_log EXCEPT !.before = last_logged_pct,
                                             !.progress = 100]
    /\ UNCHANGED <<vars_managers, aux, last_logged_pct, call, item>>

PctNext ==
    \/ PctItemStart
    \/ PctDownloading
    \/ PctFinished

InitPct == InitManagers /\ mgr = "seq" /\ n = 0 /\ ~is_mp3
           /\ store = [rows |-> <<>>, file |-> NoFile, backup |-> FALSE, clock |-> 0]
           /\ session = NoSession
           /\ last_logged_pct = 0 - 10
           /\ progress_log = NoProgressLog
           /\ call = NoCall
           /\ item = NoItem

SpecPct == InitPct /\ [][PctNext]_vars

\* C30: within one item _last_logged_pct never decreases, and the
\* percentages of two consecutive "Progress: p%" log lines of the item differ
\* by at least 10.
C30_LogEveryTenPercent ==
    /\ progress_log.before <= last_logged_pct
    /\ Len(progress_log.lines) = 2 =>
          \/ progress_log.lines[2] - progress_log.lines[1] >= 10
          \/ progress_log.lines[1] - progress_log.lines[2] >= 10
\* C31: every value passed to the progress event is an integer in 0..100,
\* for every progress record with non-negative downloaded_bytes and positive
\* total_bytes or total_bytes_estimate.
C31_ProgressInRange ==
    progress_log.progress \in 0..100
\* ---------------------------------------------------------------------------
\* Module-level functions: classify_error (core/errors.py) and the cookie
\* options of build_yt_dlp_options / build_yt_dlp_options_async.
\* ---------------------------------------------------------------------------
\* words of an error message
MaxWords == 2

\* The keywords classify_error looks for, and three words that hold none or
\* hold one inside them.
WordTexts ==
    {"cancelled", "user cancelled", "format", "no video formats", "not found",
     "404", "unavailable", "login", "authentication", "sign in", "network",
     "connection", "timeout", "permission", "disk", "space", "ffmpeg",
     "conversion", "postprocessing", "rate limit", "429", "playlist",
     "metadata", "extract", "information", "extraction", "error"}

\* A word of a message: its lower-case text, and whether the message spells it
\* in upper case.
Words == [text : WordTexts, upper : BOOLEAN]
Messages == UNION {[1..k -> Words] : k \in 0..MaxWords}

\* kw in text, for the texts above
Contains(text, kw) ==
    \/ text = kw
    \/ <<text, kw>> \in {<<"user cancelled", "cancelled">>,
                         <<"no video formats", "format">>,
                         <<"information", "format">>,
                         <<"extraction", "extract">>}

\* A comparison that forgets to fold the case.
LowerIdentity(w) == w

\* str.lower()
Lower(w) == [w EXCEPT !.upper = FALSE]

\* kw in error_str, where error_str = str(error).lower()
InStr(kw, msg) ==
    \E i \in DOMAIN msg : ~Lower(msg[i]).upper /\ Contains(Lower(msg[i]).text, kw)

classify_error(msg) ==
    IF InStr("cancelled", msg) \/ InStr("user cancelled", msg) THEN "CancelledError"
    ELSE IF InStr("format", msg) \/ InStr("no video formats", msg)
    THEN "FormatNotAvailableError"
    ELSE IF InStr("not found", msg) \/ InStr("404", msg) \/ InStr("unavailable", msg)
    THEN "VideoNotFoundError"
    ELSE IF InStr("login", msg) \/ InStr("authentication", msg) \/ InStr("sign in", msg)
    THEN "AuthenticationError"
    ELSE IF InStr("network", msg) \/ InStr("connection", msg) \/ InStr("timeout", msg)
    THEN "NetworkError"
    ELSE IF InStr("permission", msg) \/ InStr("disk", msg) \/ InStr("space", msg)
    THEN "FilesystemError"
    ELSE IF InStr("ffmpeg", msg) THEN "FFmpegNotFoundError"
    ELSE IF InStr("conversion", msg) \/ InStr("postprocessing", msg)
    THEN "ConversionError"
    ELSE IF InStr("rate limit", msg) \/ InStr("429", msg) THEN "RateLimitError"
    ELSE IF InStr("playlist", msg) THEN "PlaylistError"
    ELSE IF InStr("metadata", msg) \/ InStr("extract", msg)
    THEN "MetadataExtractionError"
    ELSE "DownloadError"

ClassifyError ==
    \E msg \in Messages :
       /\ call = NoCall
       /\ call' = [fn |-> "classify_error", arg |-> msg, result |-> classify_error(msg)]
       /\ UNCHANGED <<vars_managers, aux, pct_vars, item>>

\* DownloadOptions.cookies and DownloadOptions.cookies_from_browser: absent,
\* or a path / a browser spec
CookieOptions == [cookies : {"none", "cookies.txt"}, cookies_from_browser : {"none", "firefox"}]

\* build_yt_dlp_options, lines 43-44: the cookie keys of the option record
build_yt_dlp_options(opts) ==
    [cookiefile |-> IF opts.cookies # "none" THEN opts.cookies ELSE "none",
     cookiesfrombrowser |-> "none"]

\* build_yt_dlp_options_async, lines 57-61
build_yt_dlp_options_async(opts) ==
    [cookiefile |-> IF opts.cookies_from_browser = "none" /\ opts.cookies # "none"
                    THEN opts.cookies ELSE "none",
     cookiesfrombrowser |-> opts.cookies_from_browser]

BuildOptions ==
    \E opts \in CookieOptions :
       /\ call = NoCall
       /\ call' = [fn |-> "build_yt_dlp_options", arg |-> opts,
                   result |-> build_yt_dlp_options(opts)]
       /\ UNCHANGED <<vars_managers, aux, pct_vars, item>>

BuildOptionsAsync ==
    \E opts \in CookieOptions :
       /\ call = NoCall
       /\ call' = [fn |-> "build_yt_dlp_options_async", arg |-> opts,
                   result |-> build_yt_dlp_options_async(opts)]
       /\ UNCHANGED <<vars_managers, aux, pct_vars, item>>

FunctionsNext ==
    \/ ClassifyError
    \/ BuildOptions
    \/ BuildOptionsAsync

InitFunctions == Init /\ mgr = "seq" /\ n = 0 /\ ~is_mp3

SpecFunctions == InitFunctions /\ [][FunctionsNext]_vars

\* C32: classify_error returns the kind of the first keyword group, in the
\* order Cancelled, FormatNotAvailable, VideoNotFound, Authentication,
\* Network, Filesystem, TranscoderMissing, Conversion, RateLimit, Playlist,
\* MetadataExtraction, that has a keyword occurring in the message whatever
\* its case, and Unknown (plain DownloadError) when no group has one.
C32_FirstKeywordGroupWins ==
    call.fn = "classify_error" =>
       LET groups ==
             << [kind |-> "CancelledError", kws |-> {"cancelled", "user cancelled"}],
                [kind |-> "FormatNotAvailableError", kws |-> {"format", "no video formats"}],
                [kind |-> "VideoNotFoundError", kws |-> {"not found", "404", "unavailable"}],
                [kind |-> "AuthenticationError", kws |-> {"login", "authentication", "sign in"}],
                [kind |-> "NetworkError", kws |-> {"network", "connection", "timeout"}],
                [kind |-> "FilesystemError", kws |-> {"permission", "disk", "space"}],
                [kind |-> "FFmpegNotFoundError", kws |-> {"ffmpeg"}],
                [kind |-> "ConversionError", kws |-> {"conversion", "postprocessing"}],
                [kind |-> "RateLimitError", kws |-> {"rate limit", "429"}],
                [kind |-> "PlaylistError", kws |-> {"playlist"}],
                [kind |-> "MetadataExtractionError", kws |-> {"metadata", "extract"}] >>
           hit(g) == \E i \in DOMAIN call.arg, kw \in groups[g].kws :
                        Contains(call.arg[i].text, kw)
           hits == {g \in DOMAIN groups : hit(g)}
       IN IF hits = {} THEN call.result = "DownloadError"
          ELSE \E g \in hits :
                  /\ \A h \in hits : g <= h
                  /\ call.result = groups[g].kind

\* A message with an upper-case keyword of a later group before a keyword of
\* an earlier group has been classified.
C32_Witness ==
    /\ call.fn = "classify_error"
    /\ Len(call.arg) = 2
    /\ call.arg[1] = [text |-> "timeout", upper |-> TRUE]
    /\ call.arg[2] = [text |-> "unavailable", upper |-> TRUE]
    /\ call.result = "VideoNotFoundError"

\* C33: the option record of an attempt takes its cookies from the browser
\* spec when that is present, otherwise from the cookie file when that is
\* present, otherwise from nowhere, and never holds both; for
\* build_yt_dlp_options and for build_yt_dlp_options_async.
C33_BrowserCookiesFirst ==
    call.fn \in {"build_yt_dlp_options", "build_yt_dlp_options_async"} =>
       /\ call.result.cookiesfrombrowser = call.arg.cookies_from_browser
       /\ call.result.cookiefile =
             (IF call.arg.cookies_from_browser # "none" THEN "none" ELSE call.arg.cookies)
       /\ ~(call.result.cookiesfrombrowser # "none" /\ call.result.cookiefile # "none")
\* ---- the per-download fields of the managers
\* Both managers keep the output file, the artifact candidates, the directory
\* and stem and the probed title of "the current item" in attributes of the
\* manager object.  The steps below follow one item from its start to its
\* finalization and say what they do to those attributes; the urls are handed
\* out by SeqBegin and SeqLoopCheck, or by AsyncBegin and WorkerGet.

\* The threads that process items: run(), or the _worker coroutines.
ItemThreads == IF mgr = "seq" THEN {0} ELSE SpawnedWorkers

\* _cleanup_artifacts_for_current_item: the candidates, the output file, and the
\* files in the directory that match the stem's patterns.
CleanupTargets ==
    (item.artifact_candidates \cup {item.current_output_file, item.last_item_stem}) \ {0}

\* The branches of run and of _process_single_download that finalize the item
\* of thread t: final_path = self._current_output_file or "Completed",
\* title = self._current_title or "Unknown", the reconciler unless it succeeded.
ItemFinalize(t, ok, fields) ==
    LET u == cur[t] IN
    /\ item' = [fields EXCEPT
                  !.final_path[u] = IF ok THEN fields.current_output_file ELSE @,
                  !.recorded_title[u] = fields.current_title,
                  !.removed[u] = IF ok THEN @ ELSE CleanupTargets]
    /\ IF mgr = "seq"
       THEN pc' = [pc EXCEPT ![t] = "loop_check"] /\ cur' = [cur EXCEPT ![t] = u + 1]
       ELSE pc' = [pc EXCEPT ![t] = "get"] /\ cur' = [cur EXCEPT ![t] = 0]

\* The frame of the steps of an item.
ItemFrame ==
    UNCHANGED <<config, flags, attempt, exc, qvars, counts, emitted, nStarted,
                nFinished, nRecords, tally, afCount, afArgs, skippedSinceCall,
                aux, pct_vars, call>>

\* run, lines 390-406, and _process_single_download, lines 476-492, with the
\* first lines of _download_with_fallback: the fields are reset (not the
\* title), makedirs, and the title is reset once the download is entered.
ItemStart(t) ==
    /\ t \in ItemThreads /\ pc[t] = "start"
    /\ LET reset == [item EXCEPT !.current_output_file = 0,
                                 !.artifact_candidates = {},
                                 !.last_item_stem = 0]
       IN \E makedirs_ok \in BOOLEAN :
            IF makedirs_ok
            THEN /\ item' = [reset EXCEPT !.current_title = 0]
                 /\ pc' = [pc EXCEPT ![t] = "probe"]
                 /\ UNCHANGED cur
            ELSE ItemFinalize(t, FALSE, reset)
    /\ ItemFrame

\* The info probe: extract_info(url, download=False) gives the title or raises.
ItemProbe(t) ==
    /\ t \in ItemThreads /\ pc[t] = "probe"
    /\ \E probed \in BOOLEAN :
         item' = [item EXCEPT !.current_title = IF probed THEN cur[t] ELSE @]
    /\ pc' = [pc EXCEPT ![t] = "fetch"]
    /\ UNCHANGED cur
    /\ ItemFrame

\* _progress_hook with the filename of the item the Fetcher is downloading.
ItemHook(t) ==
    /\ t \in ItemThreads /\ pc[t] = "fetch"
    /\ item' = [item EXCEPT !.current_output_file = cur[t],
                            !.artifact_candidates = @ \cup {cur[t]},
                            !.last_item_stem = cur[t]]
    /\ UNCHANGED <<pc, cur>>
    /\ ItemFrame

\* ydl.download returns or raises for the last time, and the item is finalized.
ItemEnd(t) ==
    /\ t \in ItemThreads /\ pc[t] = "fetch"
    /\ \E ok \in BOOLEAN : ItemFinalize(t, ok, item)
    /\ ItemFrame

ItemStep(t) == ItemStart(t) \/ ItemProbe(t) \/ ItemHook(t) \/ ItemEnd(t)

ItemNext ==
    \/ SeqBegin \/ SeqLoopCheck \/ AsyncBegin
    \/ \E w \in Workers : WorkerGet(w)
    \/ \E t \in Threads : ItemStep(t)

InitItem == Init /\ n = MaxUrls /\ ~is_mp3 /\ max_concurrent = (IF mgr = "seq" THEN 1 ELSE MaxConcurrent)
SpecItem == InitItem /\ [][ItemNext]_vars

\* C34: under AsyncDownloadManager with max_concurrent > 1, the path reported
\* for a successful item u (and stored in its history record), the title
\* recorded for u and the files the reconciler removed for u are u's own: they
\* come from u's own progress events and probe, or are the placeholders.
C34_ItemStateIsPerItem ==
    mgr = "async" /\ max_concurrent > 1 =>
        \A u \in Urls :
            /\ item.final_path[u] \in {0 - 1, 0, u}
            /\ item.recorded_title[u] \in {0 - 1, 0, u}
            /\ item.removed[u] \subseteq {u}
\* ---- pause() and resume() called from several threads
\* SeqPause and SeqResume are the calls of one controlling thread.  Here the
\* threads 1..MaxConcurrent are threads of the caller, each calling pause() or
\* resume() of the DownloadManager: a call is two statements, and no lock is
\* held between them.

\* pause, line 160: self._pause_event.set()
PauseSetEvent(t) ==
    /\ mgr = "seq" /\ pc[0] # "done" /\ pc[t] = "none"
    /\ pause_event' = TRUE
    /\ pc' = [pc EXCEPT ![t] = "pause_161"]
    /\ Emit(<<>>)
    /\ UNCHANGED <<config, cancelled, skip_current, paused, cur, attempt, exc,
                   qvars, counts>>

\* pause, line 161: self._paused = True
PauseSetFlag(t) ==
    /\ mgr = "seq" /\ pc[t] = "pause_161"
    /\ paused' = TRUE
    /\ pc' = [pc EXCEPT ![t] = "none"]
    /\ Emit(<<>>)
    /\ UNCHANGED <<config, cancelled, skip_current, pause_event, cur, attempt, exc,
                   qvars, counts>>

\* resume, line 164: self._pause_event.clear()
ResumeClearEvent(t) ==
    /\ mgr = "seq" /\ pc[0] # "done" /\ pc[t] = "none"
    /\ pause_event' = FALSE
    /\ pc' = [pc EXCEPT ![t] = "resume_165"]
    /\ Emit(<<>>)
    /\ UNCHANGED <<config, cancelled, skip_current, paused, cur, attempt, exc,
                   qvars, counts>>

\* resume, line 165: self._paused = False
ResumeClearFlag(t) ==
    /\ mgr = "seq" /\ pc[t] = "resume_165"
    /\ paused' = FALSE
    /\ pc' = [pc EXCEPT ![t] = "none"]
    /\ Emit(<<>>)
    /\ UNCHANGED <<config, cancelled, skip_current, pause_event, cur, attempt, exc,
                   qvars, counts>>

\* is_paused, line 168
is_paused == paused

\* No pause() or resume() is in progress.
CallsCompleted == \A t \in Workers : pc[t] = "none"

PauseCallsNext ==
    \/ SeqProgram
    \/ \E t \in Workers : \/ PauseSetEvent(t) \/ PauseSetFlag(t)
                          \/ ResumeClearEvent(t) \/ ResumeClearFlag(t)

InitPauseCalls == Init /\ mgr = "seq" /\ n = 1 /\ is_mp3
SpecPauseCalls == InitPauseCalls /\ [][PauseCallsNext]_vars

\* C35: in DownloadManager, once every concurrent pause() and resume() call has
\* completed, is_paused() is true if and only if the pause event that blocks the
\* progress callback is set.
C35_PausedIffEventSet == CallsCompleted => (is_paused <=> pause_event)
\* ---- skip_current() and the item it is meant for
\* The urls whose itemStarted has been emitted.
StartedUrls == {u \in Urls : nStarted[u] > 0}

\* skip_current, lines 156-157, as SeqSkipCurrent, with the call noted together
\* with the urls that had been started when it was made.
SeqSkipCurrentNoted ==
    /\ mgr = "seq" /\ pc[0] # "done"
    /\ skip_current' = TRUE
    /\ skippedSinceCall' = 0
    /\ call' = [fn |-> "skip_current", started |-> StartedUrls]
    /\ emitted' = <<>>
    /\ UNCHANGED <<config, cancelled, paused, pause_event, pc, cur, attempt,
                   exc, qvars, counts, nStarted, nFinished, nRecords, tally,
                   afCount, afArgs, aux, pct_vars, item>>

SeqSkipNotedNext ==
    \/ SeqCancel \/ SeqSkipCurrentNoted \/ SeqPause \/ SeqResume
    \/ SeqProgram

SpecSeqSkipNoted == InitSeq /\ [][SeqSkipNotedNext]_vars

\* C36: in DownloadManager, an item finalized as Skipped had been started when
\* the (last) skip_current() request was made: a request made after the current
\* item's last progress callback, or between two items, does not skip the next
\* item.
C36_SkipDoesNotCarryOver ==
    \A k \in DOMAIN emitted :
        IsKind(emitted[k], "Skipped") =>
            /\ call.fn = "skip_current"
            /\ emitted[k].u \in call.started
\* C37: in AsyncDownloadManager, a skip_current() request made while an item is
\* in flight is not erased by a worker that starts a new item: a step that
\* emits itemStarted while the request is pending leaves it pending.
C37_StartKeepsSkipRequest ==
    [][(/\ mgr = "async" /\ skip_current /\ InFlight # {}
        /\ \E k \in DOMAIN emitted' : emitted'[k].e = "itemStarted")
       => skip_current']_vars
\* C38: in DownloadManager.run, success_count + fail_count is at most the
\* number of itemStarted events emitted, in every reachable state, also when
\* add_completed or on_item_finished raises after the download succeeded.
C38_CountedAtMostOnce ==
    mgr = "seq" =>
        success_count + fail_count
            <= Cardinality(UNION {{<<u, i>> : i \in 1..nStarted[u]} : u \in Urls})
\* C39: in DownloadManager, the title stored in the history record of item u is
\* the title u's own info probe found or the placeholder for an unknown title,
\* never the title of an item processed before, also when u fails before its
\* probe runs (makedirs raises).
C39_RecordedTitleIsOwn ==
    mgr = "seq" =>
        \A u \in Urls : item.recorded_title[u] \in {0 - 1, 0, u}
\* The itemFinished of the branch taken when _download_with_fallback returns
\* (False, _).
FellThrough(ev) ==
    ev.e = "itemFinished" /\ ev.info = "Download failed after all attempts"

\* C40: _download_with_fallback never returns (False, _): the attempt loop is
\* never entered with no attempt left, and no item is finalized by the
\* 'Download failed after all attempts' branch; failed items are finalized by
\* the exception handler.
C40_LoopNeverFallsThrough ==
    /\ \A t \in Threads : pc[t] = "attempt" => ~LoopFallsThrough(attempt[t])
    /\ \A k \in DOMAIN emitted : ~FellThrough(emitted[k])

\* The third and last attempt of an mp4 item has raised a format error, and the
\* exception handler has finalized the item as failed.
C40_Witness ==
    /\ ~is_mp3
    /\ \E k \in DOMAIN emitted :
         /\ emitted[k].e = "log" /\ emitted[k].info = "format"
         /\ \E j \in DOMAIN emitted :
              j > k /\ emitted[j] = EvFinished(emitted[k].u, FALSE, "error")
====
